---- MODULE Spec2Model ----
(***************************************************************************)
(* Model of extraction.py: the mailbox-log pipeline                        *)
(*   extract_and_transform -> save_to_mongodb -> transfer_to_sqlite ->     *)
(*   run_sql_queries, driven by main.                                      *)
(*                                                                         *)
(* Text is modelled as a sequence of one-character strings, so that the    *)
(* regular expression, strptime and strftime act on characters as they do  *)
(* in the program.                                                         *)
(***************************************************************************)
EXTENDS Integers, Sequences, FiniteSets, TLC

VARIABLES calls,            \* the functions the running script calls, in order
          ip,               \* index in calls of the function that is running
          pc,               \* position inside the running function
          exc,              \* the exception that ended the script, or "none"
          file,             \* lines of the input log (mbox.txt)
          pos,              \* index of the line the for-loop reads next
          transformed_data, \* extract_and_transform's local list
          data,             \* main's variable `data`
          zeroPadYear,      \* does the platform's strftime pad %Y to 4 digits
          mongo,            \* documents of log_analysis.user_history
          records,          \* transfer_to_sqlite's local `records`
          insert_data,      \* transfer_to_sqlite's local `insert_data`
          db,               \* user_history.db as committed on disk
          conn,             \* the open sqlite3 connection and its transaction
          qi,               \* index of the query run_sql_queries runs next
          out,              \* what run_sql_queries printed, query by query
          budget,           \* environment faults that may still happen
          run,              \* number of the current run of the script
          pre,              \* the two stores as they were when the run began
          log               \* calls, returns and raises of the current run

vars == <<calls, ip, pc, exc, file, pos, transformed_data, data, zeroPadYear,
          mongo, records, insert_data, db, conn, qi, out, budget, run, pre,
          log>>

(***************************************************************************)
(* Bounds                                                                  *)
(***************************************************************************)
MaxLines == 2     \* longest input file, in lines
MaxDocs == 2      \* most documents in the collection before a run
MaxPrior == 1     \* most rows in the table before a run
MaxRows == 2      \* most rows in the table the queries are checked on
MaxFaults == 1    \* most environment faults in one behaviour
MaxRuns == 2      \* runs of the script in one behaviour

(***************************************************************************)
(* Characters                                                              *)
(***************************************************************************)
Space == {" ", "\t", "\n"}
Digit == {"0", "1", "2", "3", "4", "5", "6", "7", "8", "9"}
D19   == Digit \ {"0"}
UpperCase == <<"A","B","C","D","E","F","G","H","I","J","K","L","M",
               "N","O","P","Q","R","S","T","U","V","W","X","Y","Z">>
LowerCase == <<"a","b","c","d","e","f","g","h","i","j","k","l","m",
               "n","o","p","q","r","s","t","u","v","w","x","y","z">>
Letter == {UpperCase[i] : i \in 1..26} \cup {LowerCase[i] : i \in 1..26}
Word  == Letter \cup Digit \cup {"_"}

Lower(c) ==
    IF \E i \in 1..26 : UpperCase[i] = c
    THEN LowerCase[CHOOSE i \in 1..26 : UpperCase[i] = c]
    ELSE c

DigitChar(n) == <<"0", "1", "2", "3", "4", "5", "6", "7", "8", "9">>[n + 1]
DigitVal(c)  == CHOOSE n \in 0..9 : DigitChar(n) = c

Min(S) == CHOOSE x \in S : \A y \in S : x <= y
Max(S) == CHOOSE x \in S : \A y \in S : x >= y

\* character at index i, or the empty string past either end
At(s, i) == IF i \in 1..Len(s) THEN s[i] ELSE ""
Sub(s, i, j) == SubSeq(s, i, j)
AllIn(s, i, j, C) == \A k \in i..j : At(s, k) \in C

\* index just after the longest run of characters of class C starting at i
RunEnd(s, i, C) ==
    CHOOSE j \in i..(Len(s) + 1) :
        /\ \A k \in i..(j - 1) : s[k] \in C
        /\ At(s, j) \notin C
\* the same for the complement class (never runs past the end of the text)
RunEndNot(s, i, C) ==
    CHOOSE j \in i..(Len(s) + 1) :
        /\ \A k \in i..(j - 1) : s[k] \notin C
        /\ (j = Len(s) + 1 \/ s[j] \in C)

\* value of a run of decimal digits (characters that are no digits are skipped)
RECURSIVE Num(_)
Num(s) ==
    IF s = <<>> THEN 0
    ELSE IF s[Len(s)] \in Digit
         THEN 10 * Num(Sub(s, 1, Len(s) - 1)) + DigitVal(s[Len(s)])
         ELSE Num(Sub(s, 1, Len(s) - 1))

Pow10(k) == IF k = 0 THEN 1 ELSE IF k = 1 THEN 10 ELSE IF k = 2 THEN 100
            ELSE IF k = 3 THEN 1000 ELSE 10000
\* n in decimal, zero-padded on the left to width w
Pad(n, w) == [i \in 1..w |-> DigitChar((n \div Pow10(w - i)) % 10)]
\* n in decimal without padding
Decimal(n) == Pad(n, IF n < 10 THEN 1 ELSE IF n < 100 THEN 2
                     ELSE IF n < 1000 THEN 3 ELSE 4)

(***************************************************************************)
(* Line Parser: the compiled pattern                                       *)
(*   From (\S+) (\w{3}\s+\w{3}\s+\d{1,2}\s+\d{2}:\d{2}:\d{2}\s+\d{4})       *)
(* Every quantifier is followed by an atom of a disjoint class, so the     *)
(* greedy choice is the only one backtracking can succeed with.            *)
(***************************************************************************)
FROM == <<"F", "r", "o", "m", " ">>
NoMatch == [matched |-> FALSE, email |-> <<>>, date_str |-> <<>>]

PatternMatchAt(s, p) ==
    LET e0 == p + 5                             \* group 1 starts
        e1 == RunEndNot(s, e0, Space)           \* (\S+)
        g  == e1 + 1                            \* group 2 starts after ' '
        a1 == g + 3                             \* \w{3}
        a2 == RunEnd(s, a1, Space)              \* \s+
        b1 == a2 + 3                            \* \w{3}
        b2 == RunEnd(s, b1, Space)              \* \s+
        d1 == IF At(s, b2 + 1) \in Digit THEN b2 + 2 ELSE b2 + 1  \* \d{1,2}
        d2 == RunEnd(s, d1, Space)              \* \s+
        t  == d2 + 8                            \* \d{2}:\d{2}:\d{2}
        y1 == RunEnd(s, t, Space)               \* \s+
        y2 == y1 + 4                            \* \d{4}
    IN  IF /\ p + 4 <= Len(s)
           /\ Sub(s, p, p + 4) = FROM
           /\ e0 <= Len(s) /\ e1 > e0
           /\ At(s, e1) = " "
           /\ AllIn(s, g, a1 - 1, Word)
           /\ a1 <= Len(s) /\ a2 > a1
           /\ AllIn(s, a2, b1 - 1, Word)
           /\ b1 <= Len(s) /\ b2 > b1
           /\ At(s, b2) \in Digit
           /\ d1 <= Len(s) /\ d2 > d1
           /\ AllIn(s, d2, d2 + 1, Digit) /\ At(s, d2 + 2) = ":"
           /\ AllIn(s, d2 + 3, d2 + 4, Digit) /\ At(s, d2 + 5) = ":"
           /\ AllIn(s, d2 + 6, d2 + 7, Digit)
           /\ t <= Len(s) /\ y1 > t
           /\ AllIn(s, y1, y2 - 1, Digit)
        THEN [matched |-> TRUE, email |-> Sub(s, e0, e1 - 1),
              date_str |-> Sub(s, g, y2 - 1)]
        ELSE NoMatch

MatchStarts(s) == {p \in 1..Len(s) : PatternMatchAt(s, p).matched}

\* a search that returns the rightmost match of the line
SearchLast(s) ==
    LET starts == MatchStarts(s)
    IN  IF starts = {} THEN NoMatch ELSE PatternMatchAt(s, Max(starts))

\* pattern.search(line): the leftmost match, or None
Search(s) ==
    LET starts == MatchStarts(s)
    IN  IF starts = {} THEN NoMatch ELSE PatternMatchAt(s, Min(starts))

(***************************************************************************)
(* Date Normalizer: datetime.strptime                                      *)
(* A format is a sequence of tokens: a directive ("%a"), or a literal      *)
(* character.  strptime compiles it to a regular expression in which every *)
(* run of whitespace of the format becomes \s+ and every directive becomes *)
(* a group of alternatives, matched with IGNORECASE from the start of the  *)
(* text.                                                                   *)
(***************************************************************************)
FMT1 == <<"%a", " ", "%b", " ", "%d", " ",
          "%H", ":", "%M", ":", "%S", " ", "%Y">>
FMT2 == <<"%a", " ", "%b", " ", " ", "%d", " ",
          "%H", ":", "%M", ":", "%S", " ", "%Y">>

Directives == {"%a", "%b", "%d", "%H", "%M", "%S", "%Y"}

\* whitespace runs of the format collapse to one \s+ token
FormatRegex(fmt) ==
    LET keep == {i \in 1..Len(fmt) :
                    ~(fmt[i] \in Space /\ i > 1 /\ fmt[i - 1] \in Space)}
        nth(k) == CHOOSE i \in keep : Cardinality({j \in keep : j <= i}) = k
    IN  [k \in 1..Cardinality(keep) |->
            IF fmt[nth(k)] \in Space THEN "\\s+" ELSE fmt[nth(k)]]

WeekdayNames == << <<"m","o","n">>, <<"t","u","e">>, <<"w","e","d">>,
                   <<"t","h","u">>, <<"f","r","i">>, <<"s","a","t">>,
                   <<"s","u","n">> >>
MonthNames == << <<"j","a","n">>, <<"f","e","b">>, <<"m","a","r">>,
                 <<"a","p","r">>, <<"m","a","y">>, <<"j","u","n">>,
                 <<"j","u","l">>, <<"a","u","g">>, <<"s","e","p">>,
                 <<"o","c","t">>, <<"n","o","v">>, <<"d","e","c">> >>
NameAlts(names) == [n \in 1..Len(names) |->
                       [j \in 1..Len(names[n]) |-> {names[n][j]}]]

\* the alternatives of a token, in the order the regular expression tries
\* them; an alternative is a sequence of character classes
Alternatives(tok) ==
    CASE tok = "%a" -> NameAlts(WeekdayNames)
      [] tok = "%b" -> NameAlts(MonthNames)
      [] tok = "%d" -> << <<{"3"}, {"0", "1"}>>, <<{"1", "2"}, Digit>>,
                          <<{"0"}, D19>>, <<D19>>, <<{" "}, D19>> >>
      [] tok = "%H" -> << <<{"2"}, {"0", "1", "2", "3"}>>,
                          <<{"0", "1"}, Digit>>, <<Digit>> >>
      [] tok = "%M" -> << <<{"0", "1", "2", "3", "4", "5"}, Digit>>,
                          <<Digit>> >>
      [] tok = "%S" -> << <<{"6"}, {"0", "1"}>>,
                          <<{"0", "1", "2", "3", "4", "5"}, Digit>>,
                          <<Digit>> >>
      [] tok = "%Y" -> << <<Digit, Digit, Digit, Digit>> >>
      [] OTHER      -> << <<{tok}>> >>

AltMatches(s, i, alt) ==
    \A j \in 1..Len(alt) : Lower(At(s, i + j - 1)) \in alt[j]

\* what each way of matching token tok at index i consumes and yields, in
\* the order backtracking tries the ways
Candidates(s, i, tok) ==
    IF tok = "\\s+"
    THEN LET e == RunEnd(s, i, Space)
         IN  [c \in 1..(e - i) |-> [end |-> e - c + 1, val |-> 0]]
    ELSE LET alts == Alternatives(tok)
             ok == {a \in 1..Len(alts) : AltMatches(s, i, alts[a])}
             nth(k) == CHOOSE a \in ok : Cardinality({b \in ok : b <= a}) = k
         IN  [k \in 1..Cardinality(ok) |->
                [end |-> i + Len(alts[nth(k)]),
                 val |-> IF tok \in {"%a", "%b"} THEN nth(k)
                         ELSE Num(Sub(s, i, i + Len(alts[nth(k)]) - 1))]]

NoFields == [t \in Directives |-> 0]
ReFail == [ok |-> FALSE, end |-> 0, f |-> NoFields]

\* format_regex.match(data_string): tokens re[k..] matched from index i;
\* the ways of matching a token are tried in order and the first one after
\* which the rest of the expression matches is taken (backtracking)
RECURSIVE ReMatch(_, _, _, _), ReTry(_, _, _, _, _)
ReMatch(s, i, re, k) ==
    IF k > Len(re) THEN [ok |-> TRUE, end |-> i, f |-> NoFields]
    ELSE IF i > Len(s) + 1 THEN ReFail
    ELSE ReTry(s, Candidates(s, i, re[k]), 1, re, k)
ReTry(s, cands, c, re, k) ==
    IF c > Len(cands) THEN ReFail
    ELSE LET r == ReMatch(s, cands[c].end, re, k + 1)
         IN  IF r.ok
             THEN [ok |-> TRUE, end |-> r.end,
                   f |-> IF re[k] \in Directives
                         THEN [r.f EXCEPT ![re[k]] = cands[c].val]
                         ELSE r.f]
             ELSE ReTry(s, cands, c + 1, re, k)

IsLeap(y) == (y % 4 = 0 /\ y % 100 # 0) \/ y % 400 = 0
DaysInMonth(y, m) ==
    IF m = 2 THEN (IF IsLeap(y) THEN 29 ELSE 28)
    ELSE IF m \in {4, 6, 9, 11} THEN 30 ELSE 31

ValueError == [ok |-> FALSE, year |-> 0, month |-> 0, day |-> 0,
               hour |-> 0, minute |-> 0, second |-> 0]

\* datetime.strptime(date_str, fmt): a datetime, or ValueError when the text
\* does not match, text remains after the match, or the fields are no date
Strptime(s, fmt) ==
    LET r == ReMatch(s, 1, FormatRegex(fmt), 1)
    IN  IF ~r.ok THEN ValueError
        ELSE IF r.end # Len(s) + 1 THEN ValueError
        ELSE IF \/ r.f["%Y"] < 1
                \/ r.f["%d"] > DaysInMonth(r.f["%Y"], r.f["%b"])
                \/ r.f["%S"] > 59
        THEN ValueError
        ELSE [ok |-> TRUE, year |-> r.f["%Y"], month |-> r.f["%b"],
              day |-> r.f["%d"], hour |-> r.f["%H"], minute |-> r.f["%M"],
              second |-> r.f["%S"]]

\* date_obj.strftime("%Y-%m-%d %H:%M:%S"); %Y is handed to the C library,
\* which pads the year to four digits on some platforms and not on others
Strftime(dt, padYear) ==
    (IF padYear THEN Pad(dt.year, 4) ELSE Decimal(dt.year))
    \o <<"-">> \o Pad(dt.month, 2) \o <<"-">> \o Pad(dt.day, 2)
    \o <<" ">> \o Pad(dt.hour, 2) \o <<":">> \o Pad(dt.minute, 2)
    \o <<":">> \o Pad(dt.second, 2)

\* lines 28-31: the second format is tried when the first raises ValueError
ParseDate(date_str) ==
    LET first == Strptime(date_str, FMT1)
    IN  IF first.ok THEN first ELSE Strptime(date_str, FMT2)

(***************************************************************************)
(* Input lines                                                             *)
(***************************************************************************)
SenderA == <<"a", "@", "x">>
SenderB == <<"b", "@", "y">>
SP == <<" ">>
T090807 == <<"0", "9", ":", "0", "8", ":", "0", "7">>
T235959 == <<"2", "3", ":", "5", "9", ":", "5", "9">>
T240000 == <<"2", "4", ":", "0", "0", ":", "0", "0">>
Y2024 == <<"2", "0", "2", "4">>
Y0999 == <<"0", "9", "9", "9">>

\* From a@x Mon Jan  5 09:08:07 2024
LineTwoSpaces == FROM \o SenderA \o SP \o <<"M", "o", "n">> \o SP
    \o <<"J", "a", "n">> \o SP \o SP \o <<"5">> \o SP \o T090807 \o SP \o Y2024
\* From b@y Tue Jan 15 23:59:59 2024
LineOneSpace == FROM \o SenderB \o SP \o <<"T", "u", "e">> \o SP
    \o <<"J", "a", "n">> \o SP \o <<"1", "5">> \o SP \o T235959 \o SP \o Y2024
\* Subject: hi
LineSubject == <<"S", "u", "b", "j", "e", "c", "t", ":", " ", "h", "i">>
\* From a@x  Mon Jan 5 09:08:07 2024      (two spaces after the sender)
LineGap == FROM \o SenderA \o SP \o SP \o <<"M", "o", "n">> \o SP
    \o <<"J", "a", "n">> \o SP \o <<"5">> \o SP \o T090807 \o SP \o Y2024
\* From a@x Mon Jan 155 09:08:07 2024     (three-digit day)
LineDay3 == FROM \o SenderA \o SP \o <<"M", "o", "n">> \o SP
    \o <<"J", "a", "n">> \o SP \o <<"1", "5", "5">> \o SP \o T090807
    \o SP \o Y2024
\* From b@y tue JAN<tab>05 23:59:59 20245<newline>
LineTab == FROM \o SenderB \o SP \o <<"t", "u", "e">> \o SP
    \o <<"J", "A", "N">> \o <<"\t">> \o <<"0", "5">> \o SP \o T235959
    \o SP \o Y2024 \o <<"5", "\n">>
\* >From b@y Tue Jan 15 23:59:59 2024 From a@x Mon Jan  5 09:08:07 2024
LineTwoMatches == <<">">> \o LineOneSpace \o SP \o LineTwoSpaces
\* From a@x Mon Jan  5 09:08:07 0999       (year below 1000)
LineYear999 == FROM \o SenderA \o SP \o <<"M", "o", "n">> \o SP
    \o <<"J", "a", "n">> \o SP \o SP \o <<"5">> \o SP \o T090807 \o SP \o Y0999
\* From a@x Xyz Jan  5 09:08:07 2024       (no weekday name)
LineBadWeekday == FROM \o SenderA \o SP \o <<"X", "y", "z">> \o SP
    \o <<"J", "a", "n">> \o SP \o SP \o <<"5">> \o SP \o T090807 \o SP \o Y2024
\* From b@y Mon Feb 30 09:08:07 2024       (no such day)
LineFeb30 == FROM \o SenderB \o SP \o <<"M", "o", "n">> \o SP
    \o <<"F", "e", "b">> \o SP \o <<"3", "0">> \o SP \o T090807 \o SP \o Y2024
\* From b@y Mon Jan 15 24:00:00 2024       (no such hour)
LineHour24 == FROM \o SenderB \o SP \o <<"M", "o", "n">> \o SP
    \o <<"J", "a", "n">> \o SP \o <<"1", "5">> \o SP \o T240000 \o SP \o Y2024

LinePool == {LineTwoSpaces, LineOneSpace, LineSubject, LineGap, LineDay3,
             LineTab, LineTwoMatches, LineYear999, LineBadWeekday,
             LineFeb30, LineHour24}

SeqsUpTo(S, n) == UNION {[1..k -> S] : k \in 0..n}

(***************************************************************************)
(* Records, documents and the two stores                                   *)
(***************************************************************************)
Missing == <<"(absent)">>     \* the document has no such field
Null    == <<"None">>         \* None in Python, NULL in SQL

\* the dictionary line 34 builds from a line whose date parses
Rec(line) == [email |-> Search(line).email,
              date  |-> Strftime(ParseDate(Search(line).date_str), FALSE)]

RecA05 == Rec(LineTwoSpaces)     \* a@x 2024-01-05 09:08:07
RecB15 == Rec(LineOneSpace)      \* b@y 2024-01-15 23:59:59
RecB05 == Rec(LineTab)           \* b@y 2024-01-05 23:59:59
RecA999 == Rec(LineYear999)      \* a@x 999-01-05 09:08:07
DocNoDate == [email |-> SenderA, date |-> Missing]
DocNullEmail == [email |-> Null, date |-> RecA05.date]

DocPool == {RecA05, RecB15, DocNoDate, DocNullEmail}
RowPool == {RecA05, RecB05, RecB15, RecA999}

\* user_history.db: does the table exist, its rows, and the largest id the
\* AUTOINCREMENT column ever gave out (sqlite_sequence)
NoDb == [exists |-> FALSE, rows |-> <<>>, seq |-> 0]
Table(pairs, base) ==
    [exists |-> TRUE,
     rows |-> [k \in 1..Len(pairs) |->
                 [id |-> base + k, email |-> pairs[k].email,
                  date |-> pairs[k].date]],
     seq |-> base + Len(pairs)]

Closed == [open |-> FALSE, inTxn |-> FALSE, rows |-> <<>>, seq |-> 0]

\* sqlite3.connect: the connection sees the committed database
Connect(d) ==
    [db |-> d,
     conn |-> [open |-> TRUE, inTxn |-> FALSE, rows |-> d.rows, seq |-> d.seq]]

\* CREATE TABLE IF NOT EXISTS: a DDL statement opens no transaction, so it
\* takes effect on disk at once
CreateTable(d, c) == [db |-> [d EXCEPT !.exists = TRUE], conn |-> c]

\* a DELETE that removes nothing
DeleteAllKeepsRows(d, c) == [db |-> d, conn |-> [c EXCEPT !.inTxn = TRUE]]

\* a DELETE on a connection in autocommit mode: it reaches the disk at once
DeleteAllAutocommit(d, c) ==
    [db |-> [d EXCEPT !.rows = <<>>], conn |-> [c EXCEPT !.rows = <<>>]]

\* DELETE FROM user_history: the sqlite3 module begins a transaction before
\* the statement; the rows go from the connection's view only, and
\* sqlite_sequence keeps its value
DeleteAll(d, c) == [db |-> d, conn |-> [c EXCEPT !.inTxn = TRUE, !.rows = <<>>]]

\* executemany(INSERT ...): row after row inside the open transaction; the
\* first None in a NOT NULL column raises IntegrityError and the rows before
\* it stay inserted in the transaction
InsertRows(d, c, tuples) ==
    LET bad == {k \in 1..Len(tuples) : Null \in {tuples[k][1], tuples[k][2]}}
        n == IF bad = {} THEN Len(tuples) ELSE Min(bad) - 1
    IN  [ok |-> bad = {},
         db |-> d,
         conn |-> [c EXCEPT !.inTxn = TRUE,
                            !.rows = c.rows \o
                                [k \in 1..n |-> [id |-> c.seq + k,
                                                 email |-> tuples[k][1],
                                                 date |-> tuples[k][2]]],
                            !.seq = c.seq + n]]

\* conn.commit()
Commit(d, c) == [db |-> [d EXCEPT !.rows = c.rows, !.seq = c.seq],
                 conn |-> [c EXCEPT !.inTxn = FALSE]]

\* a connection that is dropped or closed with an open transaction: SQLite
\* rolls the transaction back, the committed database stays
Abandon(d, c) == [db |-> d, conn |-> Closed]

\* a writer that does not clear the collection
DeleteManyKeeps(coll) == coll

\* collection.delete_many({})
DeleteMany(coll) == <<>>

\* collection.insert_many(docs): pymongo raises TypeError for an empty list
InsertMany(coll, docs) ==
    [ok |-> docs # <<>>, coll |-> IF docs # <<>> THEN coll \o docs ELSE coll]

\* list(collection.find()): every document, in the store's natural order,
\* which the store does not promise to be the insertion order
Find(coll) ==
    LET n == Len(coll)
        perms == {f \in [1..n -> 1..n] : \A i, j \in 1..n : f[i] = f[j] => i = j}
    IN  {[i \in 1..n |-> coll[f[i]]] : f \in perms}

(***************************************************************************)
(* The ten queries of run_sql_queries                                      *)
(* A result set is the set of its rows; a row is a tuple.                  *)
(***************************************************************************)
NumQueries == 10

TSDigits == {1, 2, 3, 4, 6, 7, 9, 10, 12, 13, 15, 16, 18, 19}
\* SQLite's reading of a text as YYYY-MM-DD HH:MM:SS
IsSqlTimestamp(s) ==
    /\ s # Null
    /\ Len(s) = 19
    /\ \A i \in TSDigits : s[i] \in Digit
    /\ s[5] = "-" /\ s[8] = "-" /\ s[11] = " " /\ s[14] = ":" /\ s[17] = ":"
    /\ Num(Sub(s, 6, 7)) \in 1..12
    /\ Num(Sub(s, 9, 10)) \in 1..31
    /\ Num(Sub(s, 12, 13)) \in 0..24
    /\ Num(Sub(s, 15, 16)) \in 0..59
    /\ Num(Sub(s, 18, 19)) \in 0..59

\* date(date)
SqlDate(s) == IF IsSqlTimestamp(s) THEN Sub(s, 1, 10) ELSE Null
\* strftime('%Y-%m', date)
SqlMonth(s) == IF IsSqlTimestamp(s) THEN Sub(s, 1, 7) ELSE Null
\* strftime('%w', date): 0 for Sunday
DaysBeforeMonth(y, m) ==
    LET RECURSIVE upto(_)
        upto(k) == IF k = 0 THEN 0 ELSE DaysInMonth(y, k) + upto(k - 1)
    IN  upto(m - 1)
Ordinal(y, m, d) ==
    365 * (y - 1) + ((y - 1) \div 4) - ((y - 1) \div 100) + ((y - 1) \div 400)
    + DaysBeforeMonth(y, m) + d
SqlWeekday(s) ==
    IF IsSqlTimestamp(s)
    THEN <<DigitChar(Ordinal(Num(Sub(s, 1, 4)), Num(Sub(s, 6, 7)),
                             Num(Sub(s, 9, 10))) % 7)>>
    ELSE Null
\* substr(email, instr(email, '@') + 1)
Domain(email) ==
    LET ats == {i \in 1..Len(email) : email[i] = "@"}
    IN  IF ats = {} THEN email ELSE Sub(email, Min(ats) + 1, Len(email))

\* byte order of the characters a timestamp is made of
Code(c) == CHOOSE k \in 1..13 :
              <<" ", "-", "0", "1", "2", "3", "4", "5", "6", "7", "8", "9",
                ":">>[k] = c
TextLeq(a, b) ==
    LET diff == {i \in 1..Min({Len(a), Len(b)}) : a[i] # b[i]}
    IN  IF diff = {} THEN Len(a) <= Len(b)
        ELSE Code(a[Min(diff)]) < Code(b[Min(diff)])
MinText(S) == CHOOSE a \in S : \A b \in S : TextLeq(a, b)
MaxText(S) == CHOOSE a \in S : \A b \in S : TextLeq(b, a)

Idx(rows) == 1..Len(rows)
\* SELECT key, COUNT(*) ... GROUP BY key, given the key of each row
GroupCount(keys) ==
    {<<k, Cardinality({i \in 1..Len(keys) : keys[i] = k})>> :
        k \in {keys[i] : i \in 1..Len(keys)}}

RECURSIVE SumCounts(_)
SumCounts(g) ==
    IF g = {} THEN 0
    ELSE LET r == CHOOSE x \in g : TRUE IN r[2] + SumCounts(g \ {r})

Q1(rows) == {<<rows[i].email>> : i \in Idx(rows)}
Q2(rows) == GroupCount([i \in Idx(rows) |-> SqlDate(rows[i].date)])
Q3(rows) ==
    {<<e, MinText({rows[i].date : i \in {j \in Idx(rows) : rows[j].email = e}}),
          MaxText({rows[i].date : i \in {j \in Idx(rows) : rows[j].email = e}})>> :
        e \in {rows[i].email : i \in Idx(rows)}}
Q4(rows) == GroupCount([i \in Idx(rows) |-> Domain(rows[i].email)])
Q5(rows) == {<<Len(rows)>>}
Q6(rows) == GroupCount([i \in Idx(rows) |-> SqlMonth(rows[i].date)])
\* ORDER BY count DESC orders the printing only
Q7(rows) == GroupCount([i \in Idx(rows) |-> rows[i].email])
\* ... ORDER BY count DESC LIMIT 1: one of the days with the largest count
Q8(rows) ==
    LET g == GroupCount([i \in Idx(rows) |-> SqlDate(rows[i].date)])
    IN  IF g = {} THEN {{}}
        ELSE {{r} : r \in {x \in g : \A y \in g : x[2] >= y[2]}}
Q9(rows) == GroupCount([i \in Idx(rows) |-> SqlWeekday(rows[i].date)])
\* AVG over the counts of the groups g: the quotient num/den, or NULL when
\* there is no group
NullAvg == [null |-> TRUE, num |-> 0, den |-> 0]
Avg(g) ==
    IF g = {} THEN NullAvg
    ELSE [null |-> FALSE, num |-> SumCounts(g), den |-> Cardinality(g)]

\* an average over groups of the whole timestamp instead of the day
Q10ByTimestamp(rows) ==
    LET g == GroupCount([i \in Idx(rows) |-> rows[i].date])
    IN  {<<Avg(g)>>}

\* SELECT AVG(count) FROM (SELECT COUNT(*) ... GROUP BY date(date))
Q10(rows) ==
    LET g == GroupCount([i \in Idx(rows) |-> SqlDate(rows[i].date)])
    IN  {<<Avg(g)>>}

\* the result sets query q may return on a table with these rows
QueryResults(q, rows) ==
    CASE q = 1 -> {Q1(rows)}
      [] q = 2 -> {Q2(rows)}
      [] q = 3 -> {Q3(rows)}
      [] q = 4 -> {Q4(rows)}
      [] q = 5 -> {Q5(rows)}
      [] q = 6 -> {Q6(rows)}
      [] q = 7 -> {Q7(rows)}
      [] q = 8 -> Q8(rows)
      [] q = 9 -> {Q9(rows)}
      [] q = 10 -> {Q10(rows)}

(***************************************************************************)
(* Calls, returns and exceptions                                           *)
(***************************************************************************)
\* the body of main: four calls, no try/except around any of them
MainBody == <<"extract_and_transform", "save_to_mongodb",
              "transfer_to_sqlite", "run_sql_queries">>

FirstPc(fn) ==
    CASE fn = "extract_and_transform" -> "extract_loop"
      [] fn = "save_to_mongodb"       -> "save_delete"
      [] fn = "transfer_to_sqlite"    -> "transfer_find"
      [] fn = "run_sql_queries"       -> "query_connect"

Unbound == [bound |-> FALSE, val |-> <<>>]

\* a script that catches the exception and goes on with its next call
Swallowed(c, i) ==
    [ip |-> i + 1, pc |-> IF i < Len(c) THEN FirstPc(c[i + 1]) ELSE "done"]

\* where control goes when call i of the script raises: nothing catches it
Uncaught(c, i) == [ip |-> i, pc |-> "raised"]

Raise(kind) ==
    /\ exc' = kind
    /\ ip' = Uncaught(calls, ip).ip
    /\ pc' = Uncaught(calls, ip).pc
    /\ log' = Append(log, [ev |-> "raise", fn |-> calls[ip]])

\* the running function returns and the script makes its next call
Return ==
    /\ exc' = exc
    /\ ip' = ip + 1
    /\ pc' = IF ip < Len(calls) THEN FirstPc(calls[ip + 1]) ELSE "done"
    /\ log' = log \o <<[ev |-> "return", fn |-> calls[ip]]>>
                  \o (IF ip < Len(calls)
                      THEN <<[ev |-> "call", fn |-> calls[ip + 1]]>>
                      ELSE <<>>)

(***************************************************************************)
(* extract_and_transform (lines 10-35)                                     *)
(***************************************************************************)
\* an extractor that skips a line whose date does not parse
LineResultSkipsBadDate(line, padYear) ==
    LET match == Search(line)
        date_obj == ParseDate(match.date_str)
    IN  IF match.matched /\ date_obj.ok
        THEN [kind |-> "record",
              rec |-> <<[email |-> match.email,
                         date |-> Strftime(date_obj, padYear)]>>]
        ELSE [kind |-> "skip", rec |-> <<>>]

\* lines 23-34 on one line: no record for a line without a match, a record
\* for a match whose date parses, and ValueError out of the second strptime
\* otherwise (nothing catches it)
LineResult(line, padYear) ==
    LET match == Search(line)
        date_obj == ParseDate(match.date_str)
    IN  IF ~match.matched THEN [kind |-> "skip", rec |-> <<>>]
        ELSE IF date_obj.ok
        THEN [kind |-> "record",
              rec |-> <<[email |-> match.email,
                         date |-> Strftime(date_obj, padYear)]>>]
        ELSE [kind |-> "raise", rec |-> <<>>]

\* one iteration of the for-loop over the lines of the file
ExtractLine ==
    /\ pc = "extract_loop"
    /\ pos <= Len(file)
    /\ LET r == LineResult(file[pos], zeroPadYear)
       IN  IF r.kind = "raise"
           THEN /\ Raise("ValueError")
                /\ UNCHANGED <<pos, transformed_data>>
           ELSE /\ transformed_data' = transformed_data \o r.rec
                /\ pos' = pos + 1
                /\ UNCHANGED <<exc, ip, pc, log>>
    /\ UNCHANGED <<calls, file, data, zeroPadYear, mongo, records,
                   insert_data, db, conn, qi, out, budget, run, pre>>

\* the file is exhausted: return transformed_data (bound to main's data)
ExtractReturn ==
    /\ pc = "extract_loop"
    /\ pos > Len(file)
    /\ data' = [bound |-> TRUE, val |-> transformed_data]
    /\ Return
    /\ UNCHANGED <<calls, file, pos, transformed_data, zeroPadYear, mongo,
                   records, insert_data, db, conn, qi, out, budget, run, pre>>

(***************************************************************************)
(* save_to_mongodb (lines 40-51)                                           *)
(***************************************************************************)
\* collection.delete_many({}), the first operation to reach the server
SaveDelete ==
    /\ pc = "save_delete"
    /\ \/ /\ mongo' = DeleteMany(mongo)
          /\ pc' = "save_insert"
          /\ UNCHANGED <<exc, ip, log, budget>>
       \/ /\ budget > 0
          /\ budget' = budget - 1
          /\ Raise("ServerSelectionTimeoutError")
          /\ UNCHANGED mongo
    /\ UNCHANGED <<calls, file, pos, transformed_data, data, zeroPadYear,
                   records, insert_data, db, conn, qi, out, run, pre>>

\* collection.insert_many(data), then return
SaveInsert ==
    /\ pc = "save_insert"
    /\ LET r == InsertMany(mongo, data.val)
       IN  /\ mongo' = r.coll
           /\ IF r.ok THEN Return ELSE Raise("TypeError")
    /\ UNCHANGED <<calls, file, pos, transformed_data, data, zeroPadYear,
                   records, insert_data, db, conn, qi, out, budget, run, pre>>

(***************************************************************************)
(* transfer_to_sqlite (lines 56-85)                                        *)
(***************************************************************************)
\* records = list(collection.find())
TransferFind ==
    /\ pc = "transfer_find"
    /\ \/ /\ \E r \in Find(mongo) : records' = r
          /\ pc' = "transfer_create"
          /\ UNCHANGED <<exc, ip, log, budget>>
       \/ /\ budget > 0
          /\ budget' = budget - 1
          /\ Raise("ServerSelectionTimeoutError")
          /\ UNCHANGED records
    /\ UNCHANGED <<calls, file, pos, transformed_data, data, zeroPadYear,
                   mongo, insert_data, db, conn, qi, out, run, pre>>

\* sqlite3.connect and CREATE TABLE IF NOT EXISTS
TransferCreate ==
    /\ pc = "transfer_create"
    /\ LET s == CreateTable(Connect(db).db, Connect(db).conn)
       IN  db' = s.db /\ conn' = s.conn
    /\ pc' = "transfer_delete"
    /\ UNCHANGED <<calls, ip, exc, file, pos, transformed_data, data,
                   zeroPadYear, mongo, records, insert_data, qi, out, budget,
                   run, pre, log>>

\* DELETE FROM user_history
TransferDelete ==
    /\ pc = "transfer_delete"
    /\ LET s == DeleteAll(db, conn)
       IN  db' = s.db /\ conn' = s.conn
    /\ pc' = "transfer_build"
    /\ UNCHANGED <<calls, ip, exc, file, pos, transformed_data, data,
                   zeroPadYear, mongo, records, insert_data, qi, out, budget,
                   run, pre, log>>

\* insert_data = [(rec['email'], rec['date']) for rec in records];
\* a document without one of the two keys raises KeyError
TransferBuild ==
    /\ pc = "transfer_build"
    /\ IF \E k \in 1..Len(records) :
              Missing \in {records[k].email, records[k].date}
       THEN /\ Raise("KeyError")
            /\ LET s == Abandon(db, conn) IN db' = s.db /\ conn' = s.conn
            /\ UNCHANGED insert_data
       ELSE /\ insert_data' = [k \in 1..Len(records) |->
                                  <<records[k].email, records[k].date>>]
            /\ pc' = "transfer_insert"
            /\ UNCHANGED <<exc, ip, log, db, conn>>
    /\ UNCHANGED <<calls, file, pos, transformed_data, data, zeroPadYear,
                   mongo, records, qi, out, budget, run, pre>>

\* cursor.executemany("INSERT ...", insert_data)
TransferInsert ==
    /\ pc = "transfer_insert"
    /\ LET s == InsertRows(db, conn, insert_data)
       IN  IF s.ok
           THEN /\ db' = s.db /\ conn' = s.conn
                /\ pc' = "transfer_commit"
                /\ UNCHANGED <<exc, ip, log>>
           ELSE /\ Raise("IntegrityError")
                /\ LET a == Abandon(s.db, s.conn)
                   IN  db' = a.db /\ conn' = a.conn
    /\ UNCHANGED <<calls, file, pos, transformed_data, data, zeroPadYear,
                   mongo, records, insert_data, qi, out, budget, run, pre>>

\* conn.commit(), conn.close(), then return
TransferCommit ==
    /\ pc = "transfer_commit"
    /\ LET s == Commit(db, conn)
       IN  db' = s.db /\ conn' = Closed
    /\ Return
    /\ UNCHANGED <<calls, file, pos, transformed_data, data, zeroPadYear,
                   mongo, records, insert_data, qi, out, budget, run, pre>>

(***************************************************************************)
(* run_sql_queries (lines 90-122)                                          *)
(***************************************************************************)
\* a loop that a failed query ends
NextQueryBreaks(q, failed) == IF failed THEN NumQueries + 1 ELSE q + 1

\* the index the for-loop goes to after query q: the try/except is inside
\* the loop, so a failed query is followed by the next one
NextQuery(q, failed) == q + 1

QueryFailed(q) == [q |-> q, ok |-> FALSE, rows |-> {}]

\* conn = sqlite3.connect("user_history.db")
QueryConnect ==
    /\ pc = "query_connect"
    /\ conn' = Connect(db).conn
    /\ pc' = "query"
    /\ UNCHANGED <<calls, ip, exc, file, pos, transformed_data, data,
                   zeroPadYear, mongo, records, insert_data, db, qi, out,
                   budget, run, pre, log>>

\* one iteration of the for-loop: print the label, execute, print the rows
\* or the error
QueryStep ==
    /\ pc = "query"
    /\ qi <= NumQueries
    /\ \/ /\ IF db.exists
             THEN \E res \in QueryResults(qi, db.rows) :
                     out' = Append(out, [q |-> qi, ok |-> TRUE, rows |-> res])
             ELSE out' = Append(out, QueryFailed(qi))   \* no such table
          /\ qi' = NextQuery(qi, ~db.exists)
          /\ UNCHANGED budget
       \/ /\ budget > 0                                 \* e.g. database locked
          /\ budget' = budget - 1
          /\ out' = Append(out, QueryFailed(qi))
          /\ qi' = NextQuery(qi, TRUE)
    /\ UNCHANGED <<calls, ip, pc, exc, file, pos, transformed_data, data,
                   zeroPadYear, mongo, records, insert_data, db, conn, run,
                   pre, log>>

\* the loop is over: conn.close() and return
QueryClose ==
    /\ pc = "query"
    /\ qi > NumQueries
    /\ conn' = Closed
    /\ Return
    /\ UNCHANGED <<calls, file, pos, transformed_data, data, zeroPadYear,
                   mongo, records, insert_data, db, qi, out, budget, run,
                   pre>>

(***************************************************************************)
(* Running the script again                                                *)
(***************************************************************************)
\* the process has ended (normally or by the exception); the script is
\* started once more on the same file and the stores as they now are
NextRun ==
    /\ pc \in {"done", "raised"}
    /\ run < MaxRuns
    /\ run' = run + 1
    /\ ip' = 1
    /\ pc' = FirstPc(calls[1])
    /\ exc' = "none"
    /\ pos' = 1
    /\ transformed_data' = <<>>
    /\ data' = Unbound
    /\ records' = <<>>
    /\ insert_data' = <<>>
    /\ conn' = Closed
    /\ qi' = 1
    /\ out' = <<>>
    /\ pre' = [mongo |-> mongo, db |-> db]
    /\ log' = <<[ev |-> "call", fn |-> calls[1]]>>
    /\ UNCHANGED <<calls, file, zeroPadYear, mongo, db, budget>>

(***************************************************************************)
(* Specifications                                                          *)
(***************************************************************************)
Start(c) ==
    /\ calls = c
    /\ ip = 1
    /\ pc = FirstPc(c[1])
    /\ exc = "none"
    /\ pos = 1
    /\ transformed_data = <<>>
    /\ data = Unbound
    /\ records = <<>>
    /\ insert_data = <<>>
    /\ conn = Closed
    /\ qi = 1
    /\ out = <<>>
    /\ run = 1
    /\ pre = [mongo |-> mongo, db |-> db]
    /\ log = <<[ev |-> "call", fn |-> c[1]]>>

MainPool == {LineTwoSpaces, LineOneSpace, LineSubject, LineBadWeekday}
PriorMongo == SeqsUpTo({DocNoDate}, MaxPrior)
PriorDb == {NoDb} \cup {Table(ps, 0) : ps \in SeqsUpTo({RecB05}, MaxPrior)}

\* main on a file of the pool; no line of the pool has a year
\* below 1000, so the two kinds of strftime agree on it
Init ==
    /\ file \in SeqsUpTo(MainPool, MaxLines)
    /\ zeroPadYear = FALSE
    /\ mongo \in PriorMongo
    /\ db \in PriorDb
    /\ budget = MaxFaults
    /\ Start(MainBody)

\* one run of main
NextMain ==
    \/ ExtractLine \/ ExtractReturn
    \/ SaveDelete \/ SaveInsert
    \/ TransferFind \/ TransferCreate \/ TransferDelete \/ TransferBuild
    \/ TransferInsert \/ TransferCommit
    \/ QueryConnect \/ QueryStep \/ QueryClose

SpecMain == Init /\ [][NextMain]_vars

\* main, run again and again on the same file
Next == NextMain \/ NextRun

Spec == Init /\ [][Next]_vars

\* extract_and_transform alone, on every file of the line pool
InitExtract ==
    /\ file \in SeqsUpTo(LinePool, MaxLines)
    /\ zeroPadYear \in BOOLEAN
    /\ mongo = <<>>
    /\ db = NoDb
    /\ budget = 0
    /\ Start(<<"extract_and_transform">>)

NextExtract == ExtractLine \/ ExtractReturn

SpecExtract == InitExtract /\ [][NextExtract]_vars

\* transfer_to_sqlite, then run_sql_queries, on any content of the stores
InitTransfer ==
    /\ file = <<>>
    /\ zeroPadYear = FALSE
    /\ mongo \in SeqsUpTo(DocPool, MaxDocs)
    /\ db \in PriorDb
    /\ budget = MaxFaults
    /\ Start(<<"transfer_to_sqlite", "run_sql_queries">>)

NextTransfer ==
    \/ TransferFind \/ TransferCreate \/ TransferDelete \/ TransferBuild
    \/ TransferInsert \/ TransferCommit
    \/ QueryConnect \/ QueryStep \/ QueryClose

SpecTransfer == InitTransfer /\ [][NextTransfer]_vars

\* run_sql_queries alone, on any table, any of the queries failing
InitAnalysis ==
    /\ file = <<>>
    /\ zeroPadYear = FALSE
    /\ mongo = <<>>
    /\ db \in {NoDb} \cup {Table(ps, 0) : ps \in SeqsUpTo(RowPool, MaxRows)}
    /\ budget = NumQueries
    /\ Start(<<"run_sql_queries">>)

NextAnalysis == QueryConnect \/ QueryStep \/ QueryClose

SpecAnalysis == InitAnalysis /\ [][NextAnalysis]_vars

(***************************************************************************)
(* Properties                                                              *)
(***************************************************************************)
Raised(fn)   == \E k \in 1..Len(log) : log[k] = [ev |-> "raise", fn |-> fn]
Returned(fn) == \E k \in 1..Len(log) : log[k] = [ev |-> "return", fn |-> fn]
Pairs(rows) == [k \in 1..Len(rows) |-> <<rows[k].email, rows[k].date>>]
Occurrences(x, s) == Cardinality({k \in 1..Len(s) : s[k] = x})
SameBag(a, b) ==
    /\ Len(a) = Len(b)
    /\ \A k \in 1..Len(a) : Occurrences(a[k], a) = Occurrences(a[k], b)
Ended == pc \in {"done", "raised"}
NoFault == budget = MaxFaults

\* C1: when the pipeline is run again on the same input with both stores
\* reachable, the relational table ends with the same number of rows and
\* the same multiset of (sender, timestamp) pairs as the run before left.
C1_Idempotent ==
    (run >= 2 /\ Ended /\ NoFault)
        => SameBag(Pairs(db.rows), Pairs(pre.db.rows))

\* C1 witness: a second complete run that wrote two rows under fresh ids
C1_Witness ==
    /\ run = 2 /\ pc = "done" /\ NoFault
    /\ Len(db.rows) = 2
    /\ Len(pre.db.rows) = 2
    /\ db.rows[1].id > pre.db.rows[2].id

PcsOf(fn) ==
    CASE fn = "extract_and_transform" -> {"extract_loop"}
      [] fn = "save_to_mongodb"       -> {"save_delete", "save_insert"}
      [] fn = "transfer_to_sqlite"    ->
            {"transfer_find", "transfer_create", "transfer_delete",
             "transfer_build", "transfer_insert", "transfer_commit"}
      [] fn = "run_sql_queries"       -> {"query_connect", "query"}

CallsIn(l) == SelectSeq(l, LAMBDA e : e.ev = "call")

\* C2: in a run of main the four stages are called in the order Extractor,
\* Primary Store Writer, Relational Store Transfer, Analysis Runner, each
\* right after the return of the one before and only the called one runs;
\* an exception in a stage ends the run, and the stores of the later
\* stages are as they were when the run began.
C2_Sequential ==
    /\ \A k \in 1..Len(CallsIn(log)) : CallsIn(log)[k].fn = MainBody[k]
    /\ \A k \in 2..Len(log) :
          log[k].ev = "call" =>
              /\ log[k - 1].ev = "return"
              /\ \E j \in 2..Len(MainBody) :
                    log[k].fn = MainBody[j] /\ log[k - 1].fn = MainBody[j - 1]
    /\ \A k \in 1..Len(log) : log[k].ev = "raise" => k = Len(log)
    /\ log[Len(log)].ev = "call" => pc \in PcsOf(log[Len(log)].fn)
    /\ log[Len(log)].ev = "raise" => pc = "raised"
    /\ log[Len(log)].ev = "return" => pc = "done"
    /\ Raised("extract_and_transform") => mongo = pre.mongo /\ db = pre.db
    /\ Raised("save_to_mongodb") => db = pre.db
    /\ pc \in PcsOf("extract_and_transform") => mongo = pre.mongo /\ db = pre.db
    /\ pc \in PcsOf("save_to_mongodb") => db = pre.db

\* C2 witness: the writer raised after clearing a collection that held
\* documents, over a table that held rows
C2_Witness ==
    /\ pc = "raised"
    /\ Raised("save_to_mongodb")
    /\ pre.mongo # <<>> /\ mongo = <<>>
    /\ pre.db.rows # <<>>

\* C3: run_sql_queries attempts the ten queries in the order 1..10; a
\* query that fails is reported alone, every other query is executed and
\* its rows printed, and the runner closes the connection and returns
\* without raising.
C3_Isolation ==
    /\ exc = "none" /\ pc # "raised"
    /\ pc = "query" => Len(out) = qi - 1
    /\ \A k \in 1..Len(out) :
          /\ out[k].q = k
          /\ out[k].ok => out[k].rows \in QueryResults(k, db.rows)
          /\ ~out[k].ok => out[k].rows = {}
    /\ pc = "done" => Len(out) = NumQueries /\ ~conn.open

\* C3 witness: a finished run in which queries 1, 5 and 9 failed and the
\* others printed their rows
C3_Witness ==
    /\ pc = "done"
    /\ db.rows # <<>>
    /\ \A k \in 1..NumQueries : out[k].ok <=> k \notin {1, 5, 9}

\* the line matches the pattern and neither format accepts its date
DateRejected(line) ==
    LET starts == MatchStarts(line)
    IN  /\ starts # {}
        /\ LET raw == PatternMatchAt(line, Min(starts)).date_str
           IN  ~Strptime(raw, FMT1).ok /\ ~Strptime(raw, FMT2).ok
BadLines(f) == {k \in 1..Len(f) : DateRejected(f[k])}

\* C4: when a line of the input matches the pattern and neither date
\* format accepts its date, extract_and_transform does not return (the
\* script leaves its first call only on a file without such a line); and
\* as long as the script has not left that call, ended by an exception or
\* not, main's data is unbound, the only exception is the ValueError, and
\* both stores are as they were when the run began.
C4_Fatal ==
    /\ [][(ip = 1 /\ ip' # 1) => BadLines(file) = {}]_vars
    /\ [](ip = 1 =>
            /\ ~data.bound
            /\ pc = "raised" => exc = "ValueError" /\ DateRejected(file[pos])
            /\ mongo = pre.mongo /\ db = pre.db)

\* C4 witness: the run ended on the ValueError with a record of an earlier
\* line already in the list, over stores that held data
C4_Witness ==
    /\ pc = "raised" /\ exc = "ValueError"
    /\ transformed_data # <<>>
    /\ mongo # <<>> /\ db.rows # <<>>

FirstSender(line) == PatternMatchAt(line, Min(MatchStarts(line))).email
RECURSIVE Senders(_, _)
\* the senders of the first match of each matching line among f[1..n]
Senders(f, n) ==
    IF n = 0 THEN <<>>
    ELSE Senders(f, n - 1) \o
         (IF MatchStarts(f[n]) # {} THEN <<FirstSender(f[n])>> ELSE <<>>)

\* C5: on a file whose matching lines all have dates that parse,
\* extract_and_transform holds after each line one record for each matching
\* line read so far and none for the others, in the order of the lines and
\* with the sender of the first match of the line; it raises at no line
\* without a match and returns that list.
C5_Filter ==
    /\ exc = "none" =>
          [k \in 1..Len(transformed_data) |-> transformed_data[k].email]
              = Senders(file, pos - 1)
    /\ exc # "none" => MatchStarts(file[pos]) # {}
    /\ BadLines(file) = {} => exc = "none"
    /\ data.bound => data.val = transformed_data /\ pos = Len(file) + 1

\* C5 witness: a returned list of one record from a file of two lines
\* whose matching line holds two matches
C5_Witness ==
    /\ data.bound
    /\ Len(file) = 2 /\ Len(data.val) = 1
    /\ \E k \in 1..2 : Cardinality(MatchStarts(file[k])) = 2

\* C6 (as claimed): for every record sequence, the empty one included, and
\* every prior content, save_to_mongodb completes whenever the store is
\* reachable, and the collection then holds exactly the given records.
C6_FullReplace ==
    /\ Raised("save_to_mongodb") => exc = "ServerSelectionTimeoutError"
    /\ (Returned("save_to_mongodb") /\ pc \in PcsOf("transfer_to_sqlite"))
          => mongo = data.val

\* C7: after a transfer that succeeded, query 5 returns the number of
\* records the transfer read from the primary store, whatever rows the
\* table held before.
C7_RoundTrip ==
    \A k \in 1..Len(out) :
        (out[k].q = 5 /\ out[k].ok) => out[k].rows = {<<Len(records)>>}

\* C7 witness: query 5 answered after a transfer of two records into a
\* table that held one row
C7_Witness ==
    /\ Len(out) >= 5 /\ out[5].ok
    /\ Len(records) = 2
    /\ Len(pre.db.rows) = 1

\* the fields of a raw date as the pattern captured it
RawFields(raw) ==
    LET m  == RunEnd(raw, 4, Space)
        d  == RunEnd(raw, m + 3, Space)
        de == RunEnd(raw, d, Digit)
        t  == RunEnd(raw, de, Space)
        y  == RunEnd(raw, t + 8, Space)
    IN  [month |-> Sub(raw, m, m + 2), day |-> Sub(raw, d, de - 1),
         time |-> Sub(raw, t, t + 7), year |-> Sub(raw, y, y + 3)]
MonthNumber(name) ==
    CHOOSE n \in 1..12 : MonthNames[n] = [j \in 1..3 |-> Lower(name[j])]

\* ts is YYYY-MM-DD HH:MM:SS with the fields of the raw date, zero-padded
Canonical(ts, raw) ==
    /\ Len(ts) = 19
    /\ \A i \in TSDigits : ts[i] \in Digit
    /\ ts[5] = "-" /\ ts[8] = "-" /\ ts[11] = " " /\ ts[14] = ":" /\ ts[17] = ":"
    /\ Sub(ts, 1, 4) = RawFields(raw).year
    /\ Sub(ts, 6, 7) = Pad(MonthNumber(RawFields(raw).month), 2)
    /\ Sub(ts, 9, 10) = Pad(Num(RawFields(raw).day), 2)
    /\ Sub(ts, 12, 19) = RawFields(raw).time

\* C8 (as claimed): every record the extractor appends for a line that
\* matches the pattern carries a timestamp of exactly 19 characters,
\* YYYY-MM-DD HH:MM:SS, whose year, month, day, hour, minute and second are
\* those of the date in the line, zero-padded.
C8_Canonical ==
    [][(pc = "extract_loop" /\ Len(transformed_data') > Len(transformed_data))
          => Canonical(transformed_data'[Len(transformed_data')].date,
                       PatternMatchAt(file[pos],
                                      Min(MatchStarts(file[pos]))).date_str)]_vars

Answered == pc = "done" /\ out[2].ok /\ out[5].ok /\ out[10].ok
TotalCount == (CHOOSE r \in out[5].rows : TRUE)[1]
DayCount == Cardinality(out[2].rows)
Average == (CHOOSE r \in out[10].rows : TRUE)[1]

\* C9 (as claimed): for every content of the table, query 10 returns the
\* total record count of query 5 divided by the number of rows of query 2,
\* and the per-day counts of query 2 sum to the total record count.
C9_AverageAnyTable ==
    Answered =>
        /\ ~Average.null
        /\ DayCount > 0
        /\ Average.num * DayCount = TotalCount * Average.den
        /\ SumCounts(out[2].rows) = TotalCount

\* C9 (amended): for every content of the table the per-day counts of query
\* 2 sum to the total record count of query 5; for every non-empty table
\* query 10 returns that total divided by the number of rows of query 2, and
\* for the empty table query 2 returns no row and query 10 returns NULL.
C9_Average ==
    Answered =>
        /\ SumCounts(out[2].rows) = TotalCount
        /\ IF TotalCount = 0
           THEN DayCount = 0 /\ Average.null
           ELSE /\ ~Average.null
                /\ DayCount > 0
                /\ Average.num * DayCount = TotalCount * Average.den

\* C9 witness: the three queries answered on a table of two rows of one day
C9_Witness ==
    /\ Answered
    /\ TotalCount = 2 /\ DayCount = 1
    /\ db.rows[1].date # db.rows[2].date

\* C10: while transfer_to_sqlite has not committed, and after it has
\* raised, the committed rows of user_history are those the table held when
\* the call began: the DELETE and the inserts made before the failure never
\* reach the committed table.
C10_Atomic ==
    (pc \in PcsOf("transfer_to_sqlite") \/ Raised("transfer_to_sqlite"))
        => db.rows = pre.db.rows

\* C10 witness: the bulk insert raised on its second row, after the DELETE
\* and one insert, over a table that held a row
C10_Witness ==
    /\ pc = "raised" /\ exc = "IntegrityError"
    /\ Len(records) = 2
    /\ records[1].email # Null /\ records[2].email = Null
    /\ pre.db.rows # <<>>

====
